---- MODULE Spec2Model ----
(***************************************************************************)
(* Model of cron_check.py: a cron job that logs a Discord client in, runs  *)
(* check_for_new_roles once from on_ready, schedules one                   *)
(* send_messages_to_channels task per new listing, overwrites              *)
(* previous_data.json and closes the client.                               *)
(*                                                                         *)
(* A process is modelled from the module top level to its end; processes   *)
(* follow each other (the cron cadence) and share only previous_data.json. *)
(* Every step between two awaits of a coroutine is one action.  The order  *)
(* in which the event loop resumes tasks, the results of the transport     *)
(* (get_channel, fetch_channel, channel.send) and the moment at which      *)
(* client.close() completes are left open.                                 *)
(*                                                                         *)
(* Files hold parsed values: json.dump followed by json.load of a value    *)
(* that itself came from json.load gives the value back.                   *)
(***************************************************************************)
EXTENDS Integers, Sequences, FiniteSets, TLC

\* ---------------------------------------------------------------- bounds
MaxLen  == 3    \* most listings in one dataset file
MaxRuns == 2    \* most processes started one after the other
MaxTasks == 4   \* most send_message tasks of one process (new roles x channel ids)

\* ------------------------------------------------------ program constants
MAX_RETRIES == 3

\* --------------------------------------------------------- python values
None == [type |-> "none", val |-> <<>>]
PyStr(s) == [type |-> "str", val |-> s]
PyList(l) == [type |-> "list", val |-> l]

\* x != y of Python: values of different types are never equal
PyNe(x, y) == IF x.type # y.type THEN TRUE ELSE x.val # y.val

PyDict(d) == [type |-> "dict", val |-> d]

\* truth value of a Python object: None, '' and [] are false; a listing is a
\* dict with keys, which is true
Truthy(x) == CASE x.type = "none" -> FALSE
               [] x.type = "dict" -> TRUE
               [] OTHER -> x.val # <<>>

\* ------------------------------------------------------------- listings
Role(t, c, v, a) == [title |-> t, company_name |-> c, is_visible |-> v, active |-> a]

\* the listings the upstream file is made of, in the order of the file
ListingPool ==
  << Role("SWE", "Acme", TRUE,  TRUE),
     Role("SWE", "Acme", FALSE, TRUE),
     Role("SWE", "Bolt", TRUE,  TRUE),
     Role("ML",  "Acme", TRUE,  FALSE),
     Role("ML",  "Acme", TRUE,  TRUE) >>

Min(S) == CHOOSE x \in S : \A y \in S : x <= y

RECURSIVE Pick(_)
Pick(S) == IF S = {} THEN <<>>
           ELSE LET i == Min(S) IN <<ListingPool[i]>> \o Pick(S \ {i})

\* the dataset files: listings of the pool, each at most once, at most MaxLen
Datasets == { Pick(S) : S \in { T \in SUBSET (1..Len(ListingPool)) : Cardinality(T) <= MaxLen } }

\* a JSON file on disk: absent, not parsable, or holding a dataset
Absent == [state |-> "absent", data |-> <<>>]
Unparsable == [state |-> "unparsable", data |-> <<>>]
Content(d) == [state |-> "ok", data |-> d]

\* a local variable that has not been assigned
Unset == [state |-> "unset", data |-> <<>>]

\* what read_json finds at JSON_FILE_PATH after clone_or_update_repo
UpstreamStates == { Content(d) : d \in Datasets } \cup {Absent, Unparsable}

\* ------------------------------------------------------- configuration
\* os.getenv('DISCORD_TOKEN'): unset, set to '' or set to a token
TokenEnv == { None, PyStr(<<>>), PyStr(<<"t">>) }

\* os.getenv('CHANNEL_IDS'): unset, or a comma separated list of ids
ChannelEnv == { None, PyStr(<<"1">>), PyStr(<<"1", "2">>) }

\* line 19: os.getenv('CHANNEL_IDS', '').split(',') if os.getenv('CHANNEL_IDS') else []
ParseChannelIds(env) == IF Truthy(env) THEN PyList(env.val) ELSE PyList(<<>>)

Range(s) == { s[i] : i \in DOMAIN s }

VARIABLES
  runs,                    \* processes started so far
  previous_data,           \* previous_data.json: Absent or Content(dataset)
  lastLoaded,              \* dataset read by the latest check_for_new_roles that read one
  pc,                      \* position of the process
  DISCORD_TOKEN,
  CHANNEL_IDS,
  failed_channels,
  channel_failure_counts,  \* dict: a function on the ids that have a count
  new_data,                \* check_for_new_roles: new_data (Unset before read_json returns)
  new_roles,               \* check_for_new_roles: new_roles
  unchanged,               \* new_data is the dataset the run before had read
  passes,                  \* calls of check_for_new_roles in this process
  dispatch,                \* per new role: its send_messages_to_channels task
  task,                    \* per new role and channel id: its send_message task
  sends,                   \* per new role and channel id: calls of channel.send
  streak,                  \* per channel id: counted failures since the last success
  seen                     \* what has happened so far, see NothingSeen

vars == << runs, previous_data, lastLoaded, pc, DISCORD_TOKEN, CHANNEL_IDS,
           failed_channels, channel_failure_counts, new_data, new_roles,
           unchanged, passes, dispatch, task, sends, streak, seen >>

\* found: what read_json found at JSON_FILE_PATH in this process;
\* flipped: a visible and active role of new_data has its key in old_data
\*          under a role that was hidden or inactive;
\* late: the channel ids that had a send succeed while blacklisted;
\* prevUnsent: the latest process before this one that ran
\*          check_for_new_roles found new roles and never called channel.send
NothingSeen == [found |-> Unset, flipped |-> FALSE, late |-> {}, prevUnsent |-> FALSE]

\* {} of Python: the function with no argument
EmptyDict == [c \in {} |-> 0]

Ids == Range(CHANNEL_IDS.val)

Init ==
  /\ runs = 0
  /\ previous_data = Absent
  /\ lastLoaded = Unset
  /\ pc = "stopped"
  /\ DISCORD_TOKEN = None
  /\ CHANNEL_IDS = PyList(<<>>)
  /\ failed_channels = {}
  /\ channel_failure_counts = EmptyDict
  /\ new_data = Unset
  /\ new_roles = <<>>
  /\ unchanged = FALSE
  /\ passes = 0
  /\ dispatch = <<>>
  /\ task = <<>>
  /\ sends = <<>>
  /\ streak = EmptyDict
  /\ seen = NothingSeen

\* ------------------------------------------------------ change detection
\* the identity key used at lines 186 and 189
Key(role) == <<role.title, role.company_name>>

\* line 186: {(role['title'], role['company_name']): role for role in old_data};
\* a later role replaces an earlier one under the same key
OldRolesDict(old_data) ==
  [ k \in { Key(old_data[i]) : i \in DOMAIN old_data } |->
      old_data[ CHOOSE i \in DOMAIN old_data :
                  /\ Key(old_data[i]) = k
                  /\ \A j \in DOMAIN old_data : Key(old_data[j]) = k => j <= i ] ]

\* dict.get(k): the value, or None
DictGet(d, k) == IF k \in DOMAIN d THEN PyDict(d[k]) ELSE None

\* IsNewRole without the test of the active flag
IsNewRole_NoActive(old_roles_dict, new_role) ==
  LET old_role == DictGet(old_roles_dict, Key(new_role))
  IN  IF Truthy(old_role) THEN FALSE
      ELSE new_role.is_visible

\* IsNewRole taking an old role that was hidden or inactive for no old role
IsNewRole_OldFlags(old_roles_dict, new_role) ==
  LET old_role == DictGet(old_roles_dict, Key(new_role))
  IN  IF Truthy(old_role) /\ old_role.val.is_visible /\ old_role.val.active THEN FALSE
      ELSE new_role.is_visible /\ new_role.active

\* lines 191-194 for one role of new_data: is it appended to new_roles
IsNewRole(old_roles_dict, new_role) ==
  LET old_role == DictGet(old_roles_dict, Key(new_role))
  IN  IF Truthy(old_role) THEN FALSE
      ELSE new_role.is_visible /\ new_role.active

\* lines 188-195: the loop over new_data from position i on, new_roles being acc
RECURSIVE NewRolesLoop(_, _, _, _)
NewRolesLoop(old_roles_dict, data, i, acc) ==
  IF i > Len(data) THEN acc
  ELSE NewRolesLoop(old_roles_dict, data, i + 1,
                    IF IsNewRole(old_roles_dict, data[i]) THEN Append(acc, data[i]) ELSE acc)

\* lines 182-195
DetectNew(old_data, data) == NewRolesLoop(OldRolesDict(old_data), data, 1, <<>>)

\* lines 174-180: the previous data, [] when the file does not exist
LoadPrevious(file) == IF file.state = "absent" THEN <<>> ELSE file.data

\* UpdatePreviousData writing the previous data back
UpdatePreviousData_Old(old_data, data, roles) == Content(old_data)

\* UpdatePreviousData adding the new roles to the previous data
UpdatePreviousData_Merge(old_data, data, roles) == Content(old_data \o roles)

\* UpdatePreviousData leaving the new roles out until they are delivered
UpdatePreviousData_NotNew(old_data, data, roles) ==
  LET Kept(l) == l \notin Range(roles) IN Content(SelectSeq(data, Kept))

\* lines 209-211: what is written to previous_data.json
UpdatePreviousData(old_data, data, roles) == Content(data)

\* ------------------------------------------------------------- the process
Ended == {"stopped", "exit1", "login_failed", "terminated"}

\* exit status of an ended process: exit(1) at line 233, the uncaught
\* exception of client.run on a token that is no string, or normal completion
ExitStatus == CASE pc = "exit1" -> 1
                [] pc = "login_failed" -> 1
                [] pc = "terminated" -> 0
                [] OTHER -> -1

\* line 229
ConfigPresent(token, ids) == PyNe(token, PyStr(<<>>)) /\ PyNe(ids, PyStr(<<>>))

\* lines 18-27 and 228-233: a process starts with the environment (tok, ch)
Main(tok, ch) ==
  /\ pc \in Ended
  /\ runs < MaxRuns
  /\ runs' = runs + 1
  /\ DISCORD_TOKEN' = tok
  /\ CHANNEL_IDS' = ParseChannelIds(ch)
  /\ failed_channels' = {}
  /\ channel_failure_counts' = EmptyDict
  /\ streak' = [c \in Range(ParseChannelIds(ch).val) |-> 0]
  /\ new_data' = Unset
  /\ new_roles' = <<>>
  /\ unchanged' = FALSE
  /\ passes' = 0
  /\ dispatch' = <<>>
  /\ task' = <<>>
  /\ sends' = <<>>
  /\ seen' = [NothingSeen EXCEPT !.prevUnsent =
                IF passes = 0 THEN seen.prevUnsent
                ELSE /\ new_roles # <<>>
                     /\ \A m \in DOMAIN sends : \A c \in DOMAIN sends[m] : sends[m][c] = 0]
  /\ pc' = IF ConfigPresent(tok, ParseChannelIds(ch))
            THEN (IF tok.type = "str" THEN "connected" ELSE "login_failed")
            ELSE "exit1"
  /\ UNCHANGED << previous_data, lastLoaded >>

\* AbortRun treating the unreadable dataset as an empty one
AbortRun_EmptySnapshot(upstream) ==
  /\ pc' = "handler_failed"
  /\ passes' = passes + 1
  /\ previous_data' = Content(<<>>)
  /\ seen' = [seen EXCEPT !.found = upstream]
  /\ UNCHANGED << runs, lastLoaded, DISCORD_TOKEN, CHANNEL_IDS,
                  failed_channels, channel_failure_counts, new_data, new_roles,
                  unchanged, dispatch, task, sends, streak >>

\* lines 169-171 when clone_or_update_repo or read_json raises: the exception
\* leaves check_for_new_roles and on_ready, line 225 is not reached
AbortRun(upstream) ==
  /\ pc' = "handler_failed"
  /\ passes' = passes + 1
  /\ seen' = [seen EXCEPT !.found = upstream]
  /\ UNCHANGED << runs, previous_data, lastLoaded, DISCORD_TOKEN, CHANNEL_IDS,
                  failed_channels, channel_failure_counts, new_data, new_roles,
                  unchanged, dispatch, task, sends, streak >>

\* a visible and active role of data whose key old_data has under a role
\* that is hidden or inactive
Flipped(old_data, data) ==
  \E i \in DOMAIN data : \E j \in DOMAIN old_data :
    /\ Key(data[i]) = Key(old_data[j])
    /\ data[i].is_visible /\ data[i].active
    /\ ~(old_data[j].is_visible /\ old_data[j].active)

\* lines 182-215 with old_data loaded, then line 225 up to its await
RunWith(old_data, data) ==
  LET roles == DetectNew(old_data, data)
  IN  /\ Len(roles) * Cardinality(Ids) <= MaxTasks
      /\ new_data' = Content(data)
      /\ new_roles' = roles
      /\ dispatch' = [m \in 1..Len(roles) |-> "scheduled"]
      /\ task' = [m \in 1..Len(roles) |-> [c \in Ids |-> "none"]]
      /\ sends' = [m \in 1..Len(roles) |-> [c \in Ids |-> 0]]
      /\ previous_data' = UpdatePreviousData(old_data, data, roles)
      /\ unchanged' = (lastLoaded = Content(data))
      /\ lastLoaded' = Content(data)
      /\ passes' = passes + 1
      /\ pc' = "closing"
      /\ seen' = [seen EXCEPT !.found = Content(data), !.flipped = Flipped(old_data, data)]
      /\ UNCHANGED << runs, DISCORD_TOKEN, CHANNEL_IDS, failed_channels,
                      channel_failure_counts, streak >>

\* CompleteRun without the os.path.exists test of line 174: open() raises
\* when previous_data.json does not exist
CompleteRun_NoExistsTest(data) ==
  IF previous_data.state = "absent" THEN AbortRun(Content(data))
  ELSE RunWith(previous_data.data, data)

\* lines 171-215 when read_json returns the dataset, then line 225 up to its await
CompleteRun(data) == RunWith(LoadPrevious(previous_data), data)

\* lines 164-215
check_for_new_roles(upstream) ==
  IF upstream.state = "ok" THEN CompleteRun(upstream.data) ELSE AbortRun(upstream)

\* lines 217-225
on_ready ==
  /\ pc = "connected"
  /\ \E upstream \in UpstreamStates : check_for_new_roles(upstream)

\* ---------------------------------------------------------------- dicts
DictGetOr(d, k, default) == IF k \in DOMAIN d THEN d[k] ELSE default
DictSet(d, k, v) == [x \in (DOMAIN d) \cup {k} |-> IF x = k THEN v ELSE d[x]]
DictDel(d, k) == [x \in (DOMAIN d) \ {k} |-> d[x]]

\* ------------------------------------------------------------- dispatcher
FetchResults == {"ok", "not_found", "forbidden", "error"}
SendResults == {"ok", "not_found", "forbidden", "error"}

Messages == DOMAIN new_roles

\* CountFailure on one counter shared by the channel ids
CountFailure_Shared(counts, c) ==
  [x \in (DOMAIN counts) \cup {c} |-> DictGetOr(counts, x, 0) + 1]

\* lines 118, 128, 144: channel_failure_counts[c] = channel_failure_counts.get(c, 0) + 1
CountFailure(counts, c) == DictSet(counts, c, DictGetOr(counts, c, 0) + 1)

\* ReachedMax with > for >=
ReachedMax_Strict(counts, c) == counts[c] > MAX_RETRIES

\* lines 119, 129, 145
ReachedMax(counts, c) == counts[c] >= MAX_RETRIES

\* lines 118-120, 128-130, 144-147: count the failure, blacklist at MAX_RETRIES
RecordFailure(c) ==
  /\ channel_failure_counts' = CountFailure(channel_failure_counts, c)
  /\ failed_channels' = IF ReachedMax(channel_failure_counts', c)
                         THEN failed_channels \cup {c} ELSE failed_channels

\* lines 137-138
ResetFailures(counts, c) == IF c \in DOMAIN counts THEN DictDel(counts, c) ELSE counts

SetTask(m, c, p) == task' = [task EXCEPT ![m][c] = p]
CallSend(m, c) == sends' = [sends EXCEPT ![m][c] = @ + 1]

\* lines 149-162 up to the await of gather: one send_message per channel id
\* that is not in failed_channels
send_messages_to_channels(m) ==
  /\ pc = "closing"
  /\ dispatch[m] = "scheduled"
  /\ dispatch' = [dispatch EXCEPT ![m] = "gathering"]
  /\ task' = [task EXCEPT ![m] =
                [c \in Ids |-> IF c \notin failed_channels THEN "created" ELSE "none"]]
  /\ UNCHANGED << runs, previous_data, lastLoaded, pc, DISCORD_TOKEN, CHANNEL_IDS,
                  failed_channels, channel_failure_counts, new_data, new_roles,
                  unchanged, passes, sends, streak, seen >>

\* send_message without the test of failed_channels at line 104
send_message_NoTest(m, c) ==
  /\ pc = "closing"
  /\ task[m][c] = "created"
  /\ \E cached \in BOOLEAN :
        IF cached THEN SetTask(m, c, "sending") /\ CallSend(m, c)
                  ELSE SetTask(m, c, "fetching") /\ UNCHANGED sends
  /\ UNCHANGED << runs, previous_data, lastLoaded, pc, DISCORD_TOKEN, CHANNEL_IDS,
                  failed_channels, channel_failure_counts, new_data, new_roles,
                  unchanged, passes, dispatch, streak, seen >>

\* lines 104-115 and 133 up to the first await: skip a blacklisted channel,
\* else send to the cached channel or fetch the channel
send_message(m, c) ==
  /\ pc = "closing"
  /\ task[m][c] = "created"
  /\ IF c \in failed_channels
     THEN SetTask(m, c, "skipped") /\ UNCHANGED sends
     ELSE \E cached \in BOOLEAN :
            IF cached THEN SetTask(m, c, "sending") /\ CallSend(m, c)
                      ELSE SetTask(m, c, "fetching") /\ UNCHANGED sends
  /\ UNCHANGED << runs, previous_data, lastLoaded, pc, DISCORD_TOKEN, CHANNEL_IDS,
                  failed_channels, channel_failure_counts, new_data, new_roles,
                  unchanged, passes, dispatch, streak, seen >>

\* lines 115-133: fetch_channel returns or raises
send_message_fetched(m, c, r) ==
  /\ pc = "closing"
  /\ task[m][c] = "fetching"
  /\ CASE r = "ok" ->
            /\ SetTask(m, c, "sending") /\ CallSend(m, c)
            /\ UNCHANGED << failed_channels, channel_failure_counts, streak >>
       [] r = "forbidden" ->
            /\ failed_channels' = failed_channels \cup {c}
            /\ SetTask(m, c, "done")
            /\ UNCHANGED << sends, channel_failure_counts, streak >>
       [] OTHER ->
            /\ RecordFailure(c)
            /\ streak' = [streak EXCEPT ![c] = @ + 1]
            /\ SetTask(m, c, "done")
            /\ UNCHANGED sends
  /\ UNCHANGED << runs, previous_data, lastLoaded, pc, DISCORD_TOKEN, CHANNEL_IDS,
                  new_data, new_roles, unchanged, passes, dispatch, seen >>

\* send_message_sent taking a success for a reason to clear the blacklisting
send_message_sent_Unblacklist(m, c, r) ==
  /\ pc = "closing"
  /\ task[m][c] = "sending"
  /\ IF r = "ok"
     THEN /\ channel_failure_counts' = ResetFailures(channel_failure_counts, c)
          /\ streak' = [streak EXCEPT ![c] = 0]
          /\ SetTask(m, c, "sleeping")
          /\ seen' = [seen EXCEPT !.late = IF c \in failed_channels THEN @ \cup {c} ELSE @]
          /\ failed_channels' = failed_channels \ {c}
          /\ UNCHANGED sends
     ELSE /\ RecordFailure(c)
          /\ streak' = [streak EXCEPT ![c] = IF r = "forbidden" THEN @ ELSE @ + 1]
          /\ SetTask(m, c, "done")
          /\ UNCHANGED << seen, sends >>
  /\ UNCHANGED << runs, previous_data, lastLoaded, pc, DISCORD_TOKEN, CHANNEL_IDS,
                  new_data, new_roles, unchanged, passes, dispatch >>

\* send_message_sent calling channel.send again after an error
send_message_sent_Retry(m, c, r) ==
  /\ pc = "closing"
  /\ task[m][c] = "sending"
  /\ IF r = "ok"
     THEN /\ channel_failure_counts' = ResetFailures(channel_failure_counts, c)
          /\ streak' = [streak EXCEPT ![c] = 0]
          /\ SetTask(m, c, "sleeping")
          /\ seen' = [seen EXCEPT !.late = IF c \in failed_channels THEN @ \cup {c} ELSE @]
          /\ UNCHANGED << failed_channels, sends >>
     ELSE /\ RecordFailure(c)
          /\ streak' = [streak EXCEPT ![c] = IF r = "forbidden" THEN @ ELSE @ + 1]
          /\ IF c \in failed_channels'
             THEN SetTask(m, c, "done") /\ UNCHANGED sends
             ELSE UNCHANGED task /\ CallSend(m, c)
          /\ UNCHANGED seen
  /\ UNCHANGED << runs, previous_data, lastLoaded, pc, DISCORD_TOKEN, CHANNEL_IDS,
                  new_data, new_roles, unchanged, passes, dispatch >>

\* lines 133-147: channel.send returns or raises
send_message_sent(m, c, r) ==
  /\ pc = "closing"
  /\ task[m][c] = "sending"
  /\ IF r = "ok"
     THEN /\ channel_failure_counts' = ResetFailures(channel_failure_counts, c)
          /\ streak' = [streak EXCEPT ![c] = 0]
          /\ SetTask(m, c, "sleeping")
          /\ seen' = [seen EXCEPT !.late = IF c \in failed_channels THEN @ \cup {c} ELSE @]
          /\ UNCHANGED failed_channels
     ELSE /\ RecordFailure(c)
          /\ streak' = [streak EXCEPT ![c] = IF r = "forbidden" THEN @ ELSE @ + 1]
          /\ SetTask(m, c, "done")
          /\ UNCHANGED seen
  /\ UNCHANGED << runs, previous_data, lastLoaded, pc, DISCORD_TOKEN, CHANNEL_IDS,
                  new_data, new_roles, unchanged, passes, dispatch, sends >>

\* line 140: the rate limiting delay is over
send_message_slept(m, c) ==
  /\ pc = "closing"
  /\ task[m][c] = "sleeping"
  /\ SetTask(m, c, "done")
  /\ UNCHANGED << runs, previous_data, lastLoaded, pc, DISCORD_TOKEN, CHANNEL_IDS,
                  failed_channels, channel_failure_counts, new_data, new_roles,
                  unchanged, passes, dispatch, sends, streak, seen >>

Pending == {"created", "fetching", "sending", "sleeping"}

\* lines 225 and 230: client.close() completes, on_ready and client.run
\* return, the tasks that have not finished are cancelled with the loop
Terminate ==
  /\ pc = "closing"
  /\ pc' = "terminated"
  /\ task' = [m \in DOMAIN task |->
               [c \in DOMAIN task[m] |->
                  IF task[m][c] \in Pending THEN "cancelled" ELSE task[m][c]]]
  /\ dispatch' = [m \in DOMAIN dispatch |->
                   IF dispatch[m] = "gathering" /\ \A c \in DOMAIN task[m] : task[m][c] \notin Pending
                   THEN "done" ELSE "cancelled"]
  /\ UNCHANGED << runs, previous_data, lastLoaded, DISCORD_TOKEN, CHANNEL_IDS,
                  failed_channels, channel_failure_counts, new_data, new_roles,
                  unchanged, passes, sends, streak, seen >>

Next ==
  \/ \E tok \in TokenEnv, ch \in ChannelEnv : Main(tok, ch)
  \/ on_ready
  \/ \E m \in Messages : send_messages_to_channels(m)
  \/ \E m \in Messages, c \in Ids : send_message(m, c)
  \/ \E m \in Messages, c \in Ids, r \in FetchResults : send_message_fetched(m, c, r)
  \/ \E m \in Messages, c \in Ids, r \in SendResults : send_message_sent(m, c, r)
  \/ \E m \in Messages, c \in Ids : send_message_slept(m, c)
  \/ Terminate

Spec == Init /\ [][Next]_vars

\* the client delivers READY to on_ready and an awaited client.close() completes
FairSpec == Spec /\ WF_vars(on_ready) /\ WF_vars(Terminate)

TypeOK ==
  /\ runs \in 0..MaxRuns
  /\ pc \in {"stopped", "exit1", "login_failed", "connected", "closing",
              "handler_failed", "terminated"}
  /\ failed_channels \subseteq Ids
  /\ passes \in 0..1

\* ------------------------------------------------------------------ claims
InRun == pc \in {"closing", "terminated"}

\* the listings of C that the specification calls new against P
ExpectedNew(P, C) ==
  LET PKeys == { <<P[i].title, P[i].company_name>> : i \in DOMAIN P }
      IsNew(l) == /\ <<l.title, l.company_name>> \notin PKeys
                  /\ l.is_visible
                  /\ l.active
  IN  SelectSeq(C, IsNew)

SnapshotData == IF previous_data.state = "ok" THEN previous_data.data ELSE <<>>

\* C1: the change detection of check_for_new_roles returns exactly the
\* listings of the current dataset whose key (title, company_name) is no key
\* of the previous snapshot and that are visible and active, in the order of
\* the current dataset.
C1_DetectNew ==
  [][ (pc = "connected" /\ pc' = "closing")
        => new_roles' = ExpectedNew(SnapshotData, new_data'.data) ]_vars

\* a second run has found two new listings and left out a visible and active
\* listing whose key the snapshot had, and a hidden one
C1_Witness ==
  /\ runs = 2
  /\ pc = "closing"
  /\ Len(new_roles) = 1
  /\ \E i \in DOMAIN new_data.data :
        /\ new_data.data[i].is_visible /\ new_data.data[i].active
        /\ new_data.data[i] \notin Range(new_roles)
  /\ \E i \in DOMAIN new_data.data : ~new_data.data[i].is_visible

NoSends == \A m \in DOMAIN sends : \A c \in DOMAIN sends[m] : sends[m][c] = 0

\* C3: when the dataset read by a run is the dataset the run before it had
\* read, the run finds no new listing, schedules no task and sends nothing.
C3_Idempotent ==
  (InRun /\ unchanged) => (new_roles = <<>> /\ dispatch = <<>> /\ NoSends)

\* the second run has ended on the dataset of the first, which had listings
\* that are visible and active
C3_Witness ==
  /\ runs = 2
  /\ pc = "terminated"
  /\ unchanged
  /\ ExpectedNew(<<>>, new_data.data) # <<>>

\* C4: after a run that has read the current dataset, previous_data.json
\* holds that dataset and nothing else.
C4_SnapshotReplaced == InRun => previous_data = new_data

\* a second run has ended with a counted failure and with new roles, on a
\* dataset that does not hold every listing of the snapshot before it
C4_Witness ==
  /\ runs = 2
  /\ pc = "terminated"
  /\ new_roles # <<>>
  /\ Len(new_roles) < Len(previous_data.data)
  /\ channel_failure_counts # EmptyDict

\* C2: when the process has ended, channel.send has been called exactly
\* once for every new listing and every configured channel id that is not
\* blacklisted, and previous_data.json holds the current dataset.
C2_Claim ==
  pc = "terminated" =>
    /\ \A m \in DOMAIN new_roles : \A c \in Ids \ failed_channels : sends[m][c] = 1
    /\ previous_data = new_data

\* a forbidden result for channel id c in this step
ForbiddenStep(c) ==
  \E m \in Messages : \/ send_message_fetched(m, c, "forbidden")
                       \/ send_message_sent(m, c, "forbidden")

\* C5: a forbidden result blacklists the channel id in that step, whatever
\* its failure count, and channel.send is not called again for a
\* blacklisted channel id.
C5_Claim ==
  [][ \A c \in Ids :
        /\ ForbiddenStep(c) => c \in failed_channels'
        /\ (pc = "closing" /\ pc' = "closing" /\ c \in failed_channels)
             => \A m \in Messages : sends'[m][c] = sends[m][c] ]_vars

Count(c) == DictGetOr(channel_failure_counts, c, 0)

\* a step of the dispatcher of one process
DispatchStep == pc = "closing" /\ pc' = "closing"

\* a not-found or other error that is not a forbidden one, for channel id c
CountedFailure(c) == DispatchStep /\ streak'[c] = streak[c] + 1

\* C6: a not-found or other non-forbidden error adds exactly one to the
\* failure count of its channel id; the third such error in a row
\* blacklists it; an error that leaves the count under MAX_RETRIES does not
\* blacklist it; a success after two such errors sets the count to 0 and
\* does not blacklist it.
C6_FailureCount ==
  [][ \A c \in Ids :
        /\ CountedFailure(c) => Count(c)' = Count(c) + 1
        /\ (CountedFailure(c) /\ streak'[c] >= MAX_RETRIES) => c \in failed_channels'
        /\ (CountedFailure(c) /\ Count(c)' < MAX_RETRIES /\ c \notin failed_channels)
             => c \notin failed_channels'
        /\ (DispatchStep /\ streak[c] = 2 /\ streak'[c] = 0 /\ c \notin failed_channels)
             => (Count(c)' = 0 /\ c \notin failed_channels') ]_vars

\* three errors in a row have blacklisted a channel id
C6_Witness ==
  \E c \in Ids : /\ streak[c] = MAX_RETRIES
                  /\ Count(c) = MAX_RETRIES
                  /\ c \in failed_channels

\* two errors, then a success: the third message is sent, the count is gone
C6_WitnessReset ==
  \E c \in Ids : /\ Len(new_roles) = 3
                  /\ task[1][c] = "done" /\ sends[1][c] = 0
                  /\ task[2][c] = "done" /\ sends[2][c] = 0
                  /\ task[3][c] = "sleeping"
                  /\ c \notin DOMAIN channel_failure_counts
                  /\ streak[c] = 0
                  /\ c \notin failed_channels

\* the send_message task of message m and channel id c ends on a failure
FailureStep(m, c) ==
  /\ DispatchStep
  /\ task[m][c] \in {"fetching", "sending"}
  /\ task'[m][c] = "done"

\* C7: a failure for one channel id leaves the run going and leaves the
\* tasks, the failure count and the blacklisting of every other channel id
\* as they were.
C7_Isolation ==
  [][ \A m \in Messages : \A c \in Ids :
        FailureStep(m, c) =>
          /\ pc' = "closing"
          /\ dispatch' = dispatch
          /\ \A d \in Ids \ {c} :
                /\ Count(d)' = Count(d)
                /\ (d \in failed_channels') = (d \in failed_channels)
                /\ \A k \in Messages : task'[k][d] = task[k][d] /\ sends'[k][d] = sends[k][d] ]_vars

\* a message has failed for one channel id and has been sent to another,
\* which has no failure on record
C7_Witness ==
  \E m \in DOMAIN task : \E c \in Ids : \E d \in Ids \ {c} :
    /\ pc = "closing"
    /\ task[m][c] = "done" /\ Count(c) = 1
    /\ task[m][d] = "done" /\ sends[m][d] = 1 /\ Count(d) = 0
    /\ d \notin failed_channels

\* the token or the list of channel ids is unset or empty
ConfigMissing == ~Truthy(DISCORD_TOKEN) \/ ~Truthy(CHANNEL_IDS)

\* C8: a process whose token or list of channel ids is missing ends with exit
\* status 1 and has not run check_for_new_roles: no fetch, no task, no write.
C8_Claim ==
  (pc # "stopped" /\ ConfigMissing) =>
    /\ pc \in {"exit1", "login_failed"}
    /\ ExitStatus = 1
    /\ passes = 0

\* C9: when the dataset file is absent or unparsable no listing is new, no
\* task is scheduled, nothing is sent and previous_data.json is left as it was.
C9_AbortedRun ==
  [][ pc' = "handler_failed" =>
        /\ previous_data' = previous_data
        /\ new_data' = Unset /\ new_roles' = <<>> /\ dispatch' = <<>> /\ NoSends' ]_vars

\* the second run has failed to read the dataset and a snapshot with
\* listings is on disk
C9_Witness ==
  /\ runs = 2
  /\ pc = "handler_failed"
  /\ previous_data.state = "ok"
  /\ previous_data.data # <<>>

\* C10: a process that has started its client calls check_for_new_roles at
\* most once and ends.
C10_Claim ==
  [](passes <= 1 /\ (pc = "connected" => <>(pc = "terminated")))

\* the keys of the listings of a dataset
KeysOf(data) == { <<data[i].title, data[i].company_name>> : i \in DOMAIN data }

\* on_ready has read the dataset and run check_for_new_roles to its end
DetectStep == pc = "connected" /\ pc' = "closing"

\* C11: a listing of the current dataset whose key is a key of the previous
\* snapshot is no new role, whatever its flags are and were.
C11_KnownKeyNotNotified ==
  [][ DetectStep =>
        \A m \in DOMAIN new_roles' :
          <<new_roles'[m].title, new_roles'[m].company_name>> \notin KeysOf(SnapshotData) ]_vars

\* a second run has read a visible and active listing whose key the snapshot
\* had under a hidden or inactive listing, and has left it out
C11_Witness ==
  /\ runs = 2
  /\ pc = "closing"
  /\ seen.flipped
  /\ \E i \in DOMAIN new_data.data :
        /\ new_data.data[i].is_visible /\ new_data.data[i].active
        /\ <<new_data.data[i].title, new_data.data[i].company_name>> \notin KeysOf(new_roles)

\* C12: when previous_data.json does not exist and the dataset is read, the
\* run goes on: every visible and active listing of the dataset is a new
\* role and previous_data.json is created with the dataset.
C12_NoPreviousSnapshot ==
  [][ (pc = "connected" /\ pc' # "connected" /\ previous_data = Absent
         /\ seen'.found.state = "ok")
        => /\ pc' = "closing"
           /\ new_roles' = ExpectedNew(<<>>, seen'.found.data)
           /\ previous_data' = seen'.found ]_vars

\* a first run without previous_data.json has found a new role, left a
\* hidden listing out and created the file
C12_Witness ==
  /\ runs = 1
  /\ pc = "closing"
  /\ new_roles # <<>>
  /\ Len(new_roles) < Len(new_data.data)
  /\ previous_data = seen.found
  /\ previous_data.state = "ok"

\* the dispatch task of message m has not run, or one of its send_message
\* tasks has not finished
Unfinished(m) ==
  \/ dispatch[m] = "scheduled"
  \/ \E c \in DOMAIN task[m] : task[m][c] \in Pending

\* C13: while the process runs with the snapshot of this run written and
\* channel ids configured, no dispatch task of the run is unfinished: the
\* write comes after the tasks.
C13_Claim ==
  (pc = "closing" /\ previous_data = new_data /\ Ids # {})
    => \A m \in DOMAIN dispatch : ~Unfinished(m)

\* the send_message tasks for channel id c that wait for fetch_channel or
\* channel.send and will read or write the state of c when resumed
InFlight(c) == { m \in DOMAIN task : task[m][c] \in {"fetching", "sending"} }

\* C14: at most one send_message task for a channel id is in flight.
C14_Claim == \A c \in Ids : Cardinality(InFlight(c)) <= 1

\* a send to channel id c returns while c is blacklisted
LateSuccess(c) ==
  /\ DispatchStep
  /\ c \in failed_channels
  /\ \E m \in Messages : task[m][c] = "sending" /\ task'[m][c] = "sleeping"

\* C15: within a process no step takes a channel id out of failed_channels;
\* a send that succeeds for a blacklisted channel id sets its failure count
\* to 0 and leaves it blacklisted.
C15_BlacklistTerminal ==
  [][ runs' = runs =>
        /\ failed_channels \subseteq failed_channels'
        /\ \A c \in Ids : LateSuccess(c) => (Count(c)' = 0 /\ c \in failed_channels') ]_vars

\* a send has succeeded for a channel id that was blacklisted: it is still
\* blacklisted and has no failure count
C15_Witness ==
  \E c \in seen.late : c \in failed_channels /\ c \notin DOMAIN channel_failure_counts

\* the send_message task of message m for the blacklisted channel id c runs
\* its first step
SkipStep(m, c) ==
  /\ DispatchStep
  /\ c \in failed_channels
  /\ task[m][c] = "created"
  /\ task'[m][c] # "created"

\* C16: send_message for a channel id that is blacklisted when it starts
\* returns without fetch_channel and without channel.send and leaves the
\* failure counts and failed_channels as they were.
C16_SkipBlacklisted ==
  [][ \A m \in Messages : \A c \in Ids :
        SkipStep(m, c) =>
          /\ task'[m][c] = "skipped"
          /\ sends' = sends
          /\ channel_failure_counts' = channel_failure_counts
          /\ failed_channels' = failed_channels ]_vars

\* a send_message task has returned at line 106
C16_Witness ==
  \E m \in DOMAIN task : \E c \in Ids :
    /\ task[m][c] = "skipped"
    /\ sends[m][c] = 0
    /\ c \in failed_channels

\* C17: channel.send is called at most once for a new role and a channel id.
C17_AtMostOneSend ==
  \A m \in DOMAIN sends : \A c \in DOMAIN sends[m] : sends[m][c] <= 1

\* the process has ended after the only send for a channel id failed: one
\* call, one counted failure
C17_Witness ==
  /\ pc = "terminated"
  /\ Len(new_roles) = 1
  /\ \E c \in Ids : task[1][c] = "done" /\ sends[1][c] = 1 /\ Count(c) = 1

\* C18: a channel id that is not blacklisted has a failure count below
\* MAX_RETRIES.
C18_CountBelowMax ==
  \A c \in Ids : c \notin failed_channels => Count(c) < MAX_RETRIES

\* a channel id one failure short of MAX_RETRIES, not blacklisted, with a
\* third task still waiting for the transport
C18_Witness ==
  \E c \in Ids : /\ Count(c) = MAX_RETRIES - 1
                  /\ c \notin failed_channels
                  /\ InFlight(c) # {}
                  /\ \E m \in DOMAIN task : task[m][c] = "done"

\* C19: no new role of a run has a key that the dataset read by the run
\* before it had: a listing is dispatched in the first run that reads its
\* key and in no later one, whatever became of its messages.
C19_DispatchedOnce ==
  [][ (DetectStep /\ lastLoaded.state = "ok") =>
        \A m \in DOMAIN new_roles' :
          <<new_roles'[m].title, new_roles'[m].company_name>> \notin KeysOf(lastLoaded.data) ]_vars

\* the run before found new roles and never called channel.send; this run
\* has read the same dataset, with channel ids configured, and has no new role
C19_Witness ==
  /\ runs = 2
  /\ pc = "closing"
  /\ seen.prevUnsent
  /\ unchanged
  /\ Ids # {}
  /\ ExpectedNew(<<>>, new_data.data) # <<>>
  /\ new_roles = <<>>

====
